---------------------------- MODULE Spec2Model ----------------------------
(***************************************************************************)
(* A model of the logspout Sumo Logic adapter (src/sumologic.go, the       *)
(* revision that starts at line 58): configuration resolution, template    *)
(* rendering, header and body construction, and the Stream loop that       *)
(* starts one sendLog goroutine per record.  The HTTP client is the        *)
(* heimdall client that NewAdapter configures; the destination and the     *)
(* producer of the record stream are the environment.                      *)
(*                                                                         *)
(* Go strings are sequences of one-character strings, so that escaping is  *)
(* a computation.  A Go pointer is a sequence of length at most one: <<>>  *)
(* is nil and <<v>> points to v.                                           *)
(***************************************************************************)
EXTENDS Integers, Sequences, FiniteSets, TLC

(***************************************************************************)
(* Pointers and strings.                                                   *)
(***************************************************************************)
Nil == <<>>
Ptr(v) == <<v>>
IsNil(p) == p = <<>>
Deref(p) == p[1]

EmptyStr == <<>>
StrBox == <<"b", "o", "x">>
StrHost == <<"e", "x", ".", "c", "o", "m">>
StrAmp == <<"a", "&", "b">>
StrData == <<"S", "o", "m", "e">>
StrFeline == <<"f", "e", "l", "i", "n", "e">>
StrURL == <<"h", "t", "t", "p", ":", "/", "/", "s">>

RECURSIVE Concat(_)
\* The concatenation of a sequence of strings.
Concat(ss) == IF ss = <<>> THEN <<>> ELSE Head(ss) \o Concat(Tail(ss))

(***************************************************************************)
(* router.Message, docker.Container and docker.Config, as far as the       *)
(* adapter reads them.  Time is a UTC instant: days since 0001-01-01,      *)
(* second of the day and nanosecond.                                       *)
(***************************************************************************)
MkConfig(image, hostname) == [Image |-> image, Hostname |-> hostname]
MkContainer(name, id, config) == [Name |-> name, ID |-> id, Config |-> config]
MkTime(days, sod, nsec) == [days |-> days, sod |-> sod, nsec |-> nsec]
MkMessage(data, time, source, container) ==
    [Data |-> data, Time |-> time, Source |-> source, Container |-> container]

\* time.Time{}: 0001-01-01T00:00:00Z.
ZeroTime == MkTime(0, 0, 0)
\* 2018-01-02T13:00:00Z plus s seconds (mkTime of the tests).
BaseTime(s) == MkTime(736695, 46800 + s, 0)

\* &router.Message{}: no container descriptor.  The messages the tests leave
\* empty have the zero Time.
MsgNoContainer == MkMessage(EmptyStr, ZeroTime, EmptyStr, Nil)
\* A container descriptor without Config.
MsgNoConfig == MkMessage(EmptyStr, ZeroTime, EmptyStr, Ptr(MkContainer(EmptyStr, EmptyStr, Nil)))
\* A container descriptor with none of its fields set, and a Config.
MsgEmpty ==
    MkMessage(EmptyStr, BaseTime(0), EmptyStr,
              Ptr(MkContainer(EmptyStr, EmptyStr, Ptr(MkConfig(EmptyStr, EmptyStr)))))
\* The same without a Time.
MsgZeroTime ==
    MkMessage(EmptyStr, ZeroTime, EmptyStr,
              Ptr(MkContainer(EmptyStr, EmptyStr, Ptr(MkConfig(EmptyStr, EmptyStr)))))
MsgBox ==
    MkMessage(StrData, BaseTime(10), EmptyStr,
              Ptr(MkContainer(StrBox, EmptyStr, Ptr(MkConfig(EmptyStr, StrHost)))))
MsgAmp ==
    MkMessage(StrData, BaseTime(10), StrBox,
              Ptr(MkContainer(StrAmp, StrBox, Ptr(MkConfig(StrFeline, StrHost)))))

(***************************************************************************)
(* Decimal formatting and time formatting.                                 *)
(***************************************************************************)
DigitChar(d) == <<"0", "1", "2", "3", "4", "5", "6", "7", "8", "9">>[d + 1]

RECURSIVE NatDigits(_)
NatDigits(n) == IF n < 10 THEN <<DigitChar(n)>> ELSE NatDigits(n \div 10) \o <<DigitChar(n % 10)>>

\* strconv.FormatInt(n, 10)
FormatInt(n) == IF n < 0 THEN <<"-">> \o NatDigits(-n) ELSE NatDigits(n)

RECURSIVE Pad(_, _)
\* n in decimal, zero-padded on the left to w digits.
Pad(n, w) == IF w = 0 THEN <<>> ELSE Pad(n \div 10, w - 1) \o <<DigitChar(n % 10)>>

\* The civil date [y, m, d] of a day number counted from 0001-01-01
\* (proleptic Gregorian calendar, as time.Time.Date computes it).
CivilFromDays(days) ==
    LET z == days + 306
        era == z \div 146097
        doe == z - era * 146097
        yoe == (doe - doe \div 1460 + doe \div 36524 - doe \div 146096) \div 365
        doy == doe - (365 * yoe + yoe \div 4 - yoe \div 100)
        mp == (5 * doy + 2) \div 153
        d == doy - (153 * mp + 2) \div 5 + 1
        m == IF mp < 10 THEN mp + 3 ELSE mp - 9
        y == yoe + era * 400 + (IF m <= 2 THEN 1 ELSE 0)
    IN  [y |-> y, m |-> m, d |-> d]

\* msg.Time.Format(time.RFC3339) of a UTC instant.
FormatRFC3339(t) ==
    LET c == CivilFromDays(t.days)
    IN  Concat(<<Pad(c.y, 4), <<"-">>, Pad(c.m, 2), <<"-">>, Pad(c.d, 2), <<"T">>,
                 Pad(t.sod \div 3600, 2), <<":">>, Pad((t.sod \div 60) % 60, 2), <<":">>,
                 Pad(t.sod % 60, 2), <<"Z">>>>)

\* Days from 0001-01-01 to 1970-01-01.
UnixEpochDays == 719162

\* time.Time.Unix(): seconds since 1970-01-01T00:00:00Z.
UnixSeconds(t) == (t.days - UnixEpochDays) * 86400 + t.sod

(***************************************************************************)
(* 64-bit arithmetic.  The nanosecond count of an instant does not fit the *)
(* integers of the model checker, so a magnitude is the sequence of its    *)
(* digits in base 1000, most significant first and without leading zeros   *)
(* (zero is the empty sequence), and an int64 is a sign and a magnitude.   *)
(***************************************************************************)
RECURSIVE MagOf(_)
\* The magnitude of a natural number.
MagOf(n) == IF n = 0 THEN <<>> ELSE MagOf(n \div 1000) \o <<n % 1000>>

RECURSIVE MagTrim(_)
MagTrim(a) == IF a # <<>> /\ Head(a) = 0 THEN MagTrim(Tail(a)) ELSE a

\* a with zeros in front, n digits long.
MagPad(a, n) == [i \in 1..n |-> IF i <= n - Len(a) THEN 0 ELSE a[i - (n - Len(a))]]

RECURSIVE MagLessFrom(_, _, _)
MagLessFrom(a, b, i) ==
    IF i > Len(a) THEN FALSE
    ELSE IF a[i] # b[i] THEN a[i] < b[i]
    ELSE MagLessFrom(a, b, i + 1)

\* a < b
MagLess(a, b) == IF Len(a) # Len(b) THEN Len(a) < Len(b) ELSE MagLessFrom(a, b, 1)

RECURSIVE MagAddFrom(_, _, _, _)
MagAddFrom(a, b, i, carry) ==
    IF i = 0 THEN (IF carry = 0 THEN <<>> ELSE <<carry>>)
    ELSE MagAddFrom(a, b, i - 1, (a[i] + b[i] + carry) \div 1000)
             \o <<(a[i] + b[i] + carry) % 1000>>

\* a + b
MagAdd(a, b) ==
    LET n == IF Len(a) > Len(b) THEN Len(a) ELSE Len(b)
    IN  MagTrim(MagAddFrom(MagPad(a, n), MagPad(b, n), n, 0))

RECURSIVE MagSubFrom(_, _, _, _)
MagSubFrom(a, b, i, borrow) ==
    IF i = 0 THEN <<>>
    ELSE LET d == a[i] - b[i] - borrow
         IN  MagSubFrom(a, b, i - 1, IF d < 0 THEN 1 ELSE 0) \o <<IF d < 0 THEN d + 1000 ELSE d>>

\* a - b, for b <= a
MagSub(a, b) == MagTrim(MagSubFrom(a, MagPad(b, Len(a)), Len(a), 0))

RECURSIVE MagMulFrom(_, _, _, _)
MagMulFrom(a, k, i, carry) ==
    IF i = 0 THEN MagOf(carry)
    ELSE MagMulFrom(a, k, i - 1, (a[i] * k + carry) \div 1000) \o <<(a[i] * k + carry) % 1000>>

\* a * k, for a natural number k of at most six decimal digits
MagMul(a, k) == MagTrim(MagMulFrom(a, k, Len(a), 0))

\* a * 1000^n
MagShift(a, n) == IF a = <<>> THEN <<>> ELSE a \o [i \in 1..n |-> 0]

\* a \div 1000^n
MagDrop(a, n) == IF Len(a) <= n THEN <<>> ELSE SubSeq(a, 1, Len(a) - n)

\* 2^63 = 9223372036854775808 and 2^64 = 18446744073709551616.
Two63 == <<9, 223, 372, 36, 854, 775, 808>>
Two64 == <<18, 446, 744, 73, 709, 551, 616>>

RECURSIVE MagMod64(_)
\* a modulo 2^64
MagMod64(a) == IF MagLess(a, Two64) THEN a ELSE MagMod64(MagSub(a, Two64))

Int64(neg, mag) == [neg |-> neg /\ mag # <<>>, mag |-> mag]

\* The mutant of WrapInt64 that keeps the exact integer, as arithmetic
\* without overflow would.
ExactInt(neg, mag) == Int64(neg, mag)

\* The int64 that the integer of sign neg and magnitude mag wraps to.
WrapInt64(neg, mag) ==
    LET r == MagMod64(mag)
        u == IF neg /\ r # <<>> THEN MagSub(Two64, r) ELSE r
    IN  IF MagLess(u, Two63) THEN Int64(FALSE, u) ELSE Int64(TRUE, MagSub(Two64, u))

\* x / 1000000 on int64, which truncates toward zero.
QuoMillion(x) == Int64(x.neg, MagDrop(x.mag, 2))

RECURSIVE MagString(_)
\* The decimal digits of a magnitude: the first base-1000 digit as it is, the
\* others as three decimal digits each.
MagString(a) ==
    IF a = <<>> THEN <<>>
    ELSE IF Len(a) = 1 THEN NatDigits(a[1])
    ELSE MagString(SubSeq(a, 1, Len(a) - 1)) \o Pad(a[Len(a)], 3)

\* strconv.FormatInt(x, 10) of an int64
FormatInt64(x) ==
    IF x.mag = <<>> THEN <<"0">>
    ELSE (IF x.neg THEN <<"-">> ELSE <<>>) \o MagString(x.mag)

\* time.Time.UnixNano(): the seconds since 1970-01-01T00:00:00Z times 10^9
\* plus the nanosecond, computed in int64, where it wraps for the instants
\* before 1678 and after 2262.
UnixNano(t) ==
    LET before == t.days < UnixEpochDays
        \* the magnitude of the seconds: before the epoch the days count
        \* backwards and the second of the day forwards
        secs == IF before
                THEN MagSub(MagMul(MagOf(UnixEpochDays - t.days), 86400), MagOf(t.sod))
                ELSE MagAdd(MagMul(MagOf(t.days - UnixEpochDays), 86400), MagOf(t.sod))
        nanos == IF before
                 THEN MagSub(MagShift(secs, 3), MagOf(t.nsec))
                 ELSE MagAdd(MagShift(secs, 3), MagOf(t.nsec))
    IN  WrapInt64(before, nanos)

\* strconv.FormatInt(msg.Time.UTC().UnixNano()/1000000, 10)
UnixMilliString(t) == FormatInt64(QuoMillion(UnixNano(t)))

(***************************************************************************)
(* Templates (html/template).  A template text is a sequence of lexemes:   *)
(* single characters of literal text, the delimiters "{{" and "}}", and    *)
(* inside an action the field names of a chain such as .Container.Name.    *)
(***************************************************************************)
TplName == <<"{{", ".Container", ".Name", "}}">>
TplHostname == <<"{{", ".Container", ".Config", ".Hostname", "}}">>
TplUnclosed == <<"{{">>
TplLiteral == StrFeline
TplPrefixed == <<"n", "=", "{{", ".Container", ".Name", "}}">>

\* The field lexemes: the fields the adapter's records have, and one that no
\* record has.
FieldNames ==
    {".Data", ".Source", ".Container", ".Name", ".ID", ".Config", ".Image", ".Hostname", ".Missing"}

ParseOk(nodes) == [nodes |-> nodes, err |-> FALSE]
ParseFail == [nodes |-> <<>>, err |-> TRUE]
TextNode(c) == [kind |-> "text", text |-> IF c = "}}" THEN <<"}", "}">> ELSE <<c>>, chain |-> <<>>]
ActionNode(chain) == [kind |-> "action", text |-> <<>>, chain |-> chain]

RECURSIVE ParseAction(_, _)
RECURSIVE ParseText(_, _)
\* Inside an action: the field chain up to "}}".  The end of the text before
\* "}}" is an unclosed action, a lexeme that is no field is an unknown
\* directive, and an action without a command is a missing value.
ParseAction(text, chain) ==
    IF text = <<>> THEN ParseFail
    ELSE IF Head(text) = "}}"
         THEN IF chain = <<>> THEN ParseFail
              ELSE ParseText(Tail(text), <<ActionNode(chain)>>)
         ELSE IF Head(text) \in FieldNames
              THEN ParseAction(Tail(text), Append(chain, Head(text)))
              ELSE ParseFail

\* Outside an action: literal text up to the next "{{" (a "}}" there is
\* literal text).
ParseText(text, nodes) ==
    IF text = <<>> THEN ParseOk(nodes)
    ELSE LET rest == IF Head(text) = "{{" THEN ParseAction(Tail(text), <<>>)
                     ELSE ParseText(Tail(text), <<TextNode(Head(text))>>)
         IN  IF rest.err THEN ParseFail ELSE ParseOk(nodes \o rest.nodes)

\* template.New("info").Parse(text)
ParseTemplate(text) == ParseText(text, <<>>)

\* The HTML escaping html/template applies to the output of an action in a
\* text context.
EscapeChar(c) ==
    CASE c = "&" -> <<"&", "a", "m", "p", ";">>
      [] c = "<" -> <<"&", "l", "t", ";">>
      [] c = ">" -> <<"&", "g", "t", ";">>
      [] c = "\"" -> <<"&", "#", "3", "4", ";">>
      [] c = "'" -> <<"&", "#", "3", "9", ";">>
      [] c = "+" -> <<"&", "#", "4", "3", ";">>
      [] OTHER -> <<c>>

RECURSIVE HTMLEscape(_)
HTMLEscape(s) == IF s = <<>> THEN <<>> ELSE EscapeChar(Head(s)) \o HTMLEscape(Tail(s))

\* A value during the evaluation of a field chain: the message, a pointer to
\* a container or to a config, or a string.
ValMsg(m) == [kind |-> "msg", v |-> <<m>>]
ValContainer(p) == [kind |-> "container", v |-> p]
ValConfig(p) == [kind |-> "config", v |-> p]
ValString(s) == [kind |-> "string", v |-> s]
EvalFail == [kind |-> "error", v |-> <<>>]

\* One field of a chain: a field of a nil pointer, and a field the value
\* does not have, cannot be evaluated.
EvalField(val, f) ==
    CASE val.kind = "msg" ->
           (CASE f = ".Data" -> ValString(Deref(val.v).Data)
              [] f = ".Source" -> ValString(Deref(val.v).Source)
              [] f = ".Container" -> ValContainer(Deref(val.v).Container)
              [] OTHER -> EvalFail)
      [] val.kind = "container" ->
           IF IsNil(val.v) THEN EvalFail
           ELSE (CASE f = ".Name" -> ValString(Deref(val.v).Name)
                   [] f = ".ID" -> ValString(Deref(val.v).ID)
                   [] f = ".Config" -> ValConfig(Deref(val.v).Config)
                   [] OTHER -> EvalFail)
      [] val.kind = "config" ->
           IF IsNil(val.v) THEN EvalFail
           ELSE (CASE f = ".Image" -> ValString(Deref(val.v).Image)
                   [] f = ".Hostname" -> ValString(Deref(val.v).Hostname)
                   [] OTHER -> EvalFail)
      [] OTHER -> EvalFail

RECURSIVE EvalChain(_, _)
EvalChain(val, chain) ==
    IF chain = <<>> \/ val.kind = "error" THEN val
    ELSE EvalChain(EvalField(val, Head(chain)), Tail(chain))

RECURSIVE Execute(_, _, _)
\* tmpl.Execute(buf, msg): the nodes are written to buf in order and the
\* first action that cannot be evaluated stops the execution with an error,
\* leaving in buf what was written before it.  The templates of this model
\* end their chains in string fields.
Execute(nodes, msg, buf) ==
    IF nodes = <<>> THEN [buf |-> buf, err |-> FALSE]
    ELSE LET n == Head(nodes)
         IN  IF n.kind = "text" THEN Execute(Tail(nodes), msg, buf \o n.text)
             ELSE LET val == EvalChain(ValMsg(msg), n.chain)
                  IN  IF val.kind # "string" THEN [buf |-> buf, err |-> TRUE]
                      ELSE Execute(Tail(nodes), msg, buf \o HTMLEscape(val.v))

\* The mutant of renderTemplate that returns the buffer with the error.
renderTemplatePartial(msg, text) ==
    LET tmpl == ParseTemplate(text)
        out == Execute(tmpl.nodes, msg, <<>>)
    IN  IF tmpl.err THEN [val |-> EmptyStr, err |-> TRUE]
        ELSE [val |-> out.buf, err |-> out.err]

\* renderTemplate(msg, text): ("", err) when the text does not parse or
\* cannot be executed, (buf.String(), nil) otherwise.
renderTemplate(msg, text) ==
    LET tmpl == ParseTemplate(text)
        out == Execute(tmpl.nodes, msg, <<>>)
    IN  IF tmpl.err THEN [val |-> EmptyStr, err |-> TRUE]
        ELSE IF out.err THEN [val |-> EmptyStr, err |-> TRUE]
             ELSE [val |-> out.buf, err |-> FALSE]

(***************************************************************************)
(* Config and its resolution from the environment.  The environment is a   *)
(* function from the variables that are set to their values; an unset      *)
(* variable reads as the empty string (os.Getenv).                         *)
(***************************************************************************)
Getenv(env, name) == IF name \in DOMAIN env THEN env[name] ELSE EmptyStr

\* The mutant of getopt that takes the value of every variable that is set,
\* the empty string included.
getoptWhenSet(env, name, dfault) == IF name \in DOMAIN env THEN env[name] ELSE dfault

\* getopt(name, dfault)
getopt(env, name, dfault) ==
    LET value == Getenv(env, name)
    IN  IF value = EmptyStr THEN dfault ELSE value

DigitValue(c) ==
    CASE c = "0" -> 0 [] c = "1" -> 1 [] c = "2" -> 2 [] c = "3" -> 3 [] c = "4" -> 4
      [] c = "5" -> 5 [] c = "6" -> 6 [] c = "7" -> 7 [] c = "8" -> 8 [] c = "9" -> 9
      [] OTHER -> -1

RECURSIVE ParseDigits(_, _)
\* The value of a string of decimal digits, -1 when a character is no digit.
ParseDigits(s, acc) ==
    IF s = <<>> THEN acc
    ELSE IF DigitValue(Head(s)) < 0 THEN -1
         ELSE ParseDigits(Tail(s), acc * 10 + DigitValue(Head(s)))

\* The longest digit string of the model's environments; every one of them
\* is far below the 19 digits at which strconv.ParseInt reports a range error.
MaxDigits == 5

\* strconv.ParseInt(value, 10, 64): an optional sign and decimal digits.
ParseInt(value) ==
    LET signed == value # <<>> /\ Head(value) \in {"+", "-"}
        digits == IF signed THEN Tail(value) ELSE value
        n == IF digits = <<>> \/ Len(digits) > MaxDigits THEN -1 ELSE ParseDigits(digits, 0)
    IN  IF n < 0 THEN [val |-> 0, err |-> TRUE]
        ELSE [val |-> IF signed /\ Head(value) = "-" THEN -n ELSE n, err |-> FALSE]

\* An entry of the log: the message and the fields it was logged with.
LogEntry(message, fields) == [message |-> message, fields |-> fields]

\* The mutant of getintopt that returns, after logging the error, the value
\* strconv.ParseInt returned with it.
getintoptParsed(env, name, dfault) ==
    LET value == Getenv(env, name)
        parsed == ParseInt(value)
    IN  IF value = EmptyStr THEN [val |-> dfault, log |-> <<>>]
        ELSE [val |-> parsed.val,
              log |-> IF parsed.err
                      THEN <<[message |-> "Failed to parse", fields |-> <<<<"error">>, <<name, value>>>>]>>
                      ELSE <<>>]

\* getintopt(name, dfault): the value and the error it logs.
getintopt(env, name, dfault) ==
    LET value == Getenv(env, name)
        parsed == ParseInt(value)
    IN  IF value = EmptyStr THEN [val |-> dfault, log |-> <<>>]
        ELSE IF parsed.err
             THEN [val |-> dfault,
                   log |-> <<LogEntry("Failed to parse", <<<<"error">>, <<name, value>>>>)>>]
             ELSE [val |-> parsed.val, log |-> <<>>]

DefaultRetries == 2
DefaultBackoff == 10
DefaultTimeout == 10000

\* The mutant of buildConfig that reads the endpoint from the environment
\* alone.
buildConfigEnvOnly(env, routeAddress) ==
    [endPoint |-> getopt(env, "SUMOLOGIC_ENDPOINT", EmptyStr),
     sourceName |-> getopt(env, "SUMOLOGIC_SOURCE_NAME", TplName),
     sourceCategory |-> getopt(env, "SUMOLOGIC_SOURCE_CATEGORY", EmptyStr),
     sourceHost |-> getopt(env, "SUMOLOGIC_SOURCE_HOST", TplHostname),
     retries |-> getintopt(env, "SUMOLOGIC_RETRIES", DefaultRetries).val,
     backoff |-> getintopt(env, "SUMOLOGIC_BACKOFF", DefaultBackoff).val,
     timeout |-> getintopt(env, "SUMOLOGIC_TIMEOUT_MS", DefaultTimeout).val]

\* buildConfig(route)
buildConfig(env, routeAddress) ==
    [endPoint |-> getopt(env, "SUMOLOGIC_ENDPOINT", routeAddress),
     sourceName |-> getopt(env, "SUMOLOGIC_SOURCE_NAME", TplName),
     sourceCategory |-> getopt(env, "SUMOLOGIC_SOURCE_CATEGORY", EmptyStr),
     sourceHost |-> getopt(env, "SUMOLOGIC_SOURCE_HOST", TplHostname),
     retries |-> getintopt(env, "SUMOLOGIC_RETRIES", DefaultRetries).val,
     backoff |-> getintopt(env, "SUMOLOGIC_BACKOFF", DefaultBackoff).val,
     timeout |-> getintopt(env, "SUMOLOGIC_TIMEOUT_MS", DefaultTimeout).val]

\* The entries buildConfig logs, in the order of its calls of getintopt.
buildConfigLog(env) ==
    Concat(<<getintopt(env, "SUMOLOGIC_RETRIES", DefaultRetries).log,
             getintopt(env, "SUMOLOGIC_BACKOFF", DefaultBackoff).log,
             getintopt(env, "SUMOLOGIC_TIMEOUT_MS", DefaultTimeout).log>>)

(***************************************************************************)
(* Headers and body.  An http.Header is a function from the header names   *)
(* that are present to their lists of values.                              *)
(***************************************************************************)
NoHeaders == [k \in {} |-> <<>>]

\* http.Header.Add(key, value)
HeaderAdd(h, key, value) ==
    [k \in DOMAIN h \cup {key} |->
        IF k = key THEN (IF k \in DOMAIN h THEN Append(h[k], value) ELSE <<value>>)
        ELSE h[k]]

\* The mutant of AddIfRendered that adds the header whether or not the
\* template rendered, with the empty string renderTemplate returns on error.
AddAlways(h, key, rendered) == HeaderAdd(h, key, rendered.val)

\* if err == nil { headers.Add(key, value) }
AddIfRendered(h, key, rendered) ==
    IF ~rendered.err THEN HeaderAdd(h, key, rendered.val) ELSE h

\* The mutant of buildHeaders that renders the category template whether or
\* not it is empty.
buildHeadersCategoryAlways(msg, config) ==
    LET h1 == AddIfRendered(NoHeaders, "X-Sumo-Name", renderTemplate(msg, config.sourceName))
        h2 == AddIfRendered(h1, "X-Sumo-Host", renderTemplate(msg, config.sourceHost))
    IN  AddIfRendered(h2, "X-Sumo-Category", renderTemplate(msg, config.sourceCategory))

\* The mutant of buildHeaders in which one template that fails to render
\* leaves the record without any header.
buildHeadersAllOrNothing(msg, config) ==
    LET name == renderTemplate(msg, config.sourceName)
        host == renderTemplate(msg, config.sourceHost)
        category == renderTemplate(msg, config.sourceCategory)
        h1 == AddIfRendered(NoHeaders, "X-Sumo-Name", name)
        h2 == AddIfRendered(h1, "X-Sumo-Host", host)
    IN  IF name.err \/ host.err \/ (config.sourceCategory # EmptyStr /\ category.err)
        THEN NoHeaders
        ELSE IF config.sourceCategory # EmptyStr
             THEN AddIfRendered(h2, "X-Sumo-Category", category)
             ELSE h2

\* buildHeaders(msg, config)
buildHeaders(msg, config) ==
    LET h1 == AddIfRendered(NoHeaders, "X-Sumo-Name", renderTemplate(msg, config.sourceName))
        h2 == AddIfRendered(h1, "X-Sumo-Host", renderTemplate(msg, config.sourceHost))
    IN  IF config.sourceCategory # EmptyStr
        THEN AddIfRendered(h2, "X-Sumo-Category", renderTemplate(msg, config.sourceCategory))
        ELSE h2

\* buildData dereferences msg.Container and msg.Container.Config: a nil
\* pointer there is a runtime panic.
buildDataPanics(msg) == IsNil(msg.Container) \/ IsNil(Deref(msg.Container).Config)

\* buildData(msg), for a message on which it does not panic.
buildData(msg) ==
    LET c == Deref(msg.Container)
    IN  [Message |-> msg.Data,
         Container |-> [Time |-> FormatRFC3339(msg.Time),
                        Source |-> msg.Source,
                        Name |-> c.Name,
                        ID |-> c.ID,
                        Image |-> Deref(c.Config).Image,
                        Hostname |-> Deref(c.Config).Hostname],
         Timestamp |-> UnixMilliString(msg.Time)]

\* json.Marshal(data) of a Data whose fields are all strings: the members
\* in the order of the struct's fields under their json names.  It has no
\* error for this type.
MarshalJSON(data) ==
    [err |-> FALSE,
     json |-> <<<<"message", data.Message>>,
                <<"container", <<<<"time", data.Container.Time>>,
                                 <<"source", data.Container.Source>>,
                                 <<"docker_name", data.Container.Name>>,
                                 <<"docker_id", data.Container.ID>>,
                                 <<"docker_image", data.Container.Image>>,
                                 <<"docker_hostname", data.Container.Hostname>>>>>>,
                <<"timestamp", data.Timestamp>>>>]

(***************************************************************************)
(* The pipeline: the producer of the record stream, Adapter.Stream, one    *)
(* sendLog goroutine per record, the HTTP client and the destination.      *)
(***************************************************************************)
\* Bounds of the model.
MaxRecords == 2
MaxRetries == 1
ChanCap == 1

VARIABLES
    render,      \* a call of renderTemplate on its own: its arguments and results
    environ,     \* the environment of the process: the variables set, with their values
    route,       \* Adapter.route: the address of the route the adapter is built for
    startupLog,  \* the entries logged while the configuration was built
    config,      \* Adapter.config, built by NewAdapter
    chanBuf,     \* logstream: the records sent and not yet received
    chanClosed,  \* logstream: closed by the producer
    produced,    \* the records the producer has sent, in order
    streamPc,    \* Stream: "range" (at the receive), "go", "returned"
    msg,         \* Stream: the loop variable, a pointer
    tasks,       \* the sendLog goroutines, in the order they were started
    received,    \* the requests the destination has received, in order
    process      \* "running", or "crashed" after an unrecovered panic

vars == <<render, environ, route, startupLog, config, chanBuf, chanClosed, produced, streamPc, msg, tasks, received, process>>

\* The records of the stream.
Messages == {MsgNoContainer, MsgNoConfig, MsgEmpty, MsgBox}

\* The status codes the destination answers with.
Statuses == {200, 404, 500}
StatusOK == 200
StatusInternalServerError == 500

\* The outcomes of one attempt: the request does not reach the destination
\* (connection refused, DNS failure, unsupported URL), the request reaches it
\* and no response comes back within the timeout, or a response arrives.
TransportErrors == {"refused", "timeout"}
Outcome(kind, status) == [kind |-> kind, status |-> status]
Outcomes ==
    {Outcome(k, 0) : k \in TransportErrors} \cup {Outcome("response", s) : s \in Statuses}

NoEnv == [k \in {} |-> EmptyStr]
SetEnv(env, name, value) == [k \in DOMAIN env \cup {name} |-> IF k = name THEN value ELSE env[k]]

\* The environments and route addresses the adapters of the pipeline are
\* built from.  With a URL as the route address: every retry count from 0 to
\* MaxRetries, with the default templates or with a name template that does
\* not parse and a literal category.  With an empty route address and no
\* SUMOLOGIC_ENDPOINT: every retry count.
RetryEnvs == {SetEnv(NoEnv, "SUMOLOGIC_RETRIES", FormatInt(r)) : r \in 0..MaxRetries}
PipelineSetups ==
    {<<e, StrURL>> : e \in RetryEnvs}
    \cup {<<SetEnv(SetEnv(e, "SUMOLOGIC_SOURCE_NAME", TplUnclosed),
                   "SUMOLOGIC_SOURCE_CATEGORY", TplLiteral), StrURL>> : e \in RetryEnvs}
    \cup {<<e, EmptyStr>> : e \in RetryEnvs}

\* NewAdapter(route): the configuration.
NewAdapter(env, routeAddress) == buildConfig(env, routeAddress)

\* The mutant of ClientRetryCount that sets the retry count the earlier
\* revisions hard-coded.
ClientRetryCountFixed == 2

\* The mutant of ClientRetryCount that reads SUMOLOGIC_RETRIES from the
\* environment at the time of the delivery instead of the Config.
ClientRetryCountFromEnv == getintopt(environ, "SUMOLOGIC_RETRIES", DefaultRetries).val

\* httpClient.SetRetryCount(int(config.retries))
ClientRetryCount == config.retries

\* heimdall.NewConstantBackoff(config.backoff)
ClientBackoff == config.backoff

\* A call of renderTemplate(msg, text): before it runs and after it has
\* returned (val, err).  NoRender is no such call.
RenderCall(m, text) == [pc |-> "call", msg |-> m, text |-> text, val |-> EmptyStr, err |-> FALSE]
RenderReturn(call, result) == [call EXCEPT !.pc = "returned", !.val = result.val, !.err = result.err]
NoRender == [pc |-> "none"]

\* go s.sendLog(msg): the goroutine's state as sendLog starts.
NewTask(m) ==
    [msg |-> m, pc |-> "buildHeaders", headers |-> NoHeaders, data |-> Nil, strData |-> Nil,
     posts |-> 0, attempts |-> 0, allTransport |-> TRUE, sleeps |-> <<>>,
     resp |-> Nil, reqErr |-> FALSE, bodyReads |-> 0, bodyCloses |-> 0, log |-> <<>>]

Init ==
    /\ \E s \in PipelineSetups :
           /\ environ = s[1]
           /\ route = s[2]
           /\ config = NewAdapter(s[1], s[2])
           /\ startupLog = buildConfigLog(s[1])
    /\ chanBuf = <<>>
    /\ chanClosed = FALSE
    /\ produced = <<>>
    /\ streamPc = "range"
    /\ msg = Nil
    /\ tasks = <<>>
    /\ render = NoRender
    /\ received = <<>>
    /\ process = "running"

Running == process = "running"

\* The producer sends a record on logstream.
Send(m) ==
    /\ Running
    /\ ~chanClosed
    /\ Len(produced) < MaxRecords
    /\ Len(chanBuf) < ChanCap
    /\ chanBuf' = Append(chanBuf, m)
    /\ produced' = Append(produced, m)
    /\ UNCHANGED <<render, environ, route, startupLog, config, chanClosed, streamPc, msg, tasks, received, process>>

\* The producer closes logstream.
Close ==
    /\ Running
    /\ ~chanClosed
    /\ chanClosed' = TRUE
    /\ UNCHANGED <<render, environ, route, startupLog, config, chanBuf, produced, streamPc, msg, tasks, received, process>>

\* The mutant of StreamMayReceive that takes the next record only when no
\* delivery is in flight, as a loop that calls sendLog without go does.
StreamMayReceiveIdle ==
    chanBuf # <<>> /\ \A t \in 1..Len(tasks) : tasks[t].pc \in {"done", "panicked"}

\* The receive of the range loop waits for a record, and for nothing else.
StreamMayReceive == chanBuf # <<>>

\* Stream: for msg := range logstream, a record is received.
Receive ==
    /\ Running
    /\ streamPc = "range"
    /\ StreamMayReceive
    /\ msg' = Ptr(Head(chanBuf))
    /\ chanBuf' = Tail(chanBuf)
    /\ streamPc' = "go"
    /\ UNCHANGED <<render, environ, route, startupLog, config, chanClosed, produced, tasks, received, process>>

\* The mutant of StartTasks that starts the delivery twice.
StartTasksTwice(ts, m) == Append(Append(ts, NewTask(m)), NewTask(m))

\* The goroutines after go s.sendLog(msg).
StartTasks(ts, m) == Append(ts, NewTask(m))

\* Stream: go s.sendLog(msg).
Spawn ==
    /\ Running
    /\ streamPc = "go"
    /\ tasks' = StartTasks(tasks, Deref(msg))
    /\ streamPc' = "range"
    /\ UNCHANGED <<render, environ, route, startupLog, config, chanBuf, chanClosed, produced, msg, received, process>>

\* The mutant of StreamMayReturn that leaves the loop as soon as logstream
\* is closed, without draining it.
StreamMayReturnUndrained == chanClosed

\* The range loop ends when logstream is closed and drained.
StreamMayReturn == chanBuf = <<>> /\ chanClosed

\* Stream: the range loop ends and Stream returns.
StreamReturn ==
    /\ Running
    /\ streamPc = "range"
    /\ StreamMayReturn
    /\ streamPc' = "returned"
    /\ UNCHANGED <<render, environ, route, startupLog, config, chanBuf, chanClosed, produced, msg, tasks, received, process>>

TaskIds == 1..Len(tasks)

\* The mutant of At in which the client serves the deliveries in the order
\* the records were read: a task makes its attempts only once the tasks
\* started before it have ended.
AtInReadOrder(t, pc) ==
    /\ t \in TaskIds
    /\ tasks[t].pc = pc
    /\ pc = "attempt" => \A u \in 1..(t - 1) : tasks[u].pc \in {"done", "panicked"}

\* Task t is at step pc of sendLog.
At(t, pc) == t \in TaskIds /\ tasks[t].pc = pc

\* The mutant of TaskMsg that reads the loop variable of Stream, as a closure
\* over it would, instead of the argument the goroutine was started with.
LoopMsg(t) == IF IsNil(msg) THEN tasks[t].msg ELSE Deref(msg)

\* sendLog's parameter msg.
TaskMsg(t) == tasks[t].msg
SetTask(t, new) == tasks' = [tasks EXCEPT ![t] = new]

\* The mutant of BuildHeaders in which sendLog gives the record up when one
\* of its header templates fails to render.
BuildHeadersAborting(t) ==
    /\ Running
    /\ At(t, "buildHeaders")
    /\ LET failed == \/ renderTemplate(TaskMsg(t), config.sourceName).err
                     \/ renderTemplate(TaskMsg(t), config.sourceHost).err
                     \/ /\ config.sourceCategory # EmptyStr
                        /\ renderTemplate(TaskMsg(t), config.sourceCategory).err
       IN  SetTask(t, [tasks[t] EXCEPT !.headers = buildHeaders(TaskMsg(t), config),
                                       !.pc = IF failed THEN "done" ELSE "buildData"])
    /\ UNCHANGED <<render, environ, route, startupLog, config, chanBuf, chanClosed, produced, streamPc, msg, received, process>>

\* sendLog: headers := buildHeaders(msg, s.config)
BuildHeaders(t) ==
    /\ Running
    /\ At(t, "buildHeaders")
    /\ SetTask(t, [tasks[t] EXCEPT !.headers = buildHeaders(TaskMsg(t), config),
                                   !.pc = "buildData"])
    /\ UNCHANGED <<render, environ, route, startupLog, config, chanBuf, chanClosed, produced, streamPc, msg, received, process>>

\* The mutant of BuildData in which buildData guards the nil pointers and
\* builds a body with the missing fields empty.
BuildDataDegraded(t) ==
    /\ Running
    /\ At(t, "buildData")
    /\ LET m == TaskMsg(t)
           c == IF IsNil(m.Container) THEN MkContainer(EmptyStr, EmptyStr, Nil) ELSE Deref(m.Container)
           safe == [m EXCEPT !.Container =
                        Ptr([c EXCEPT !.Config = IF IsNil(c.Config) THEN Ptr(MkConfig(EmptyStr, EmptyStr))
                                                 ELSE c.Config])]
       IN  SetTask(t, [tasks[t] EXCEPT !.data = Ptr(buildData(safe)), !.pc = "marshal"])
    /\ UNCHANGED <<render, environ, route, startupLog, config, chanBuf, chanClosed, produced, streamPc, msg, received, process>>

\* sendLog: data := buildData(msg).  A panic in a goroutine that nothing
\* recovers ends the process.
BuildData(t) ==
    /\ Running
    /\ At(t, "buildData")
    /\ IF buildDataPanics(TaskMsg(t))
       THEN /\ SetTask(t, [tasks[t] EXCEPT !.pc = "panicked"])
            /\ process' = "crashed"
       ELSE /\ SetTask(t, [tasks[t] EXCEPT !.data = Ptr(buildData(TaskMsg(t))),
                                           !.pc = "marshal"])
            /\ UNCHANGED process
    /\ UNCHANGED <<render, environ, route, startupLog, config, chanBuf, chanClosed, produced, streamPc, msg, received>>

\* The mutant of Marshal that reports the serialization failure and goes on
\* to post an empty body.
MarshalSendsAnyway(t, fails) ==
    /\ Running
    /\ At(t, "marshal")
    /\ fails \in BOOLEAN
    /\ LET m == MarshalJSON(Deref(tasks[t].data))
       IN  IF m.err \/ fails
           THEN SetTask(t, [tasks[t] EXCEPT
                    !.log = Append(@, LogEntry("Unable to build json data, skipping send", <<<<"error">>, <<"message_source">>>>)),
                    !.strData = Ptr(<<>>),
                    !.pc = "post"])
           ELSE SetTask(t, [tasks[t] EXCEPT !.strData = Ptr(m.json), !.pc = "post"])
    /\ UNCHANGED <<render, environ, route, startupLog, config, chanBuf, chanClosed, produced, streamPc, msg,
                   received, process>>

\* sendLog: strData, err := json.Marshal(data), and the return on its error.
\* json.Marshal has no error for a Data, whose fields are all strings; fails
\* stands for an error it returns all the same, which the code provides for.
Marshal(t, fails) ==
    /\ Running
    /\ At(t, "marshal")
    /\ fails \in BOOLEAN
    /\ LET m == MarshalJSON(Deref(tasks[t].data))
       IN  IF m.err \/ fails
           THEN SetTask(t, [tasks[t] EXCEPT
                    !.log = Append(@, LogEntry("Unable to build json data, skipping send", <<<<"error">>, <<"message_source">>>>)),
                    !.pc = "done"])
           ELSE SetTask(t, [tasks[t] EXCEPT !.strData = Ptr(m.json), !.pc = "post"])
    /\ UNCHANGED <<render, environ, route, startupLog, config, chanBuf, chanClosed, produced, streamPc, msg,
                   received, process>>

\* The mutant of Post that drops the record without a word when there is no
\* endpoint to post to.
PostSkipsEmptyEndpoint(t) ==
    /\ Running
    /\ At(t, "post")
    /\ SetTask(t, [tasks[t] EXCEPT
           !.posts = IF config.endPoint = EmptyStr THEN @ ELSE @ + 1,
           !.pc = IF config.endPoint = EmptyStr THEN "done"
                  ELSE IF 0 <= ClientRetryCount THEN "attempt" ELSE "returned"])
    /\ UNCHANGED <<render, environ, route, startupLog, config, chanBuf, chanClosed, produced, streamPc, msg,
                   received, process>>

\* sendLog: s.client.Post(s.config.endPoint, body, headers) is called.  The
\* client's loop runs for i := 0; i <= retryCount; i++.
Post(t) ==
    /\ Running
    /\ At(t, "post")
    /\ SetTask(t, [tasks[t] EXCEPT !.posts = @ + 1,
                                   !.pc = IF 0 <= ClientRetryCount THEN "attempt" ELSE "returned"])
    /\ UNCHANGED <<render, environ, route, startupLog, config, chanBuf, chanClosed, produced, streamPc, msg, received, process>>

\* The request of task t as the destination sees it.
Request(t) == [task |-> t, headers |-> tasks[t].headers, body |-> Deref(tasks[t].strData)]

\* Whether an attempt with this outcome delivers the request to the
\* destination.
Reaches(o) == o.kind # "refused"

\* The outcomes an attempt can have: with an empty endpoint no request can be
\* sent at all.
PossibleOutcomes == IF config.endPoint = EmptyStr THEN {Outcome("refused", 0)} ELSE Outcomes

\* The client: one attempt of the loop ends with outcome o.  A transport
\* error leads to the backoff wait and the next iteration, a response below
\* 500 ends the loop without error, and a response of 500 or more does the
\* one or the other (retry says which: the client's versions differ).
Attempt(t, o, retry) ==
    /\ Running
    /\ At(t, "attempt")
    /\ o \in PossibleOutcomes
    /\ retry \in BOOLEAN
    /\ retry = (o.kind # "response" \/ (retry /\ o.status >= StatusInternalServerError))
    /\ received' = IF Reaches(o) THEN Append(received, Request(t)) ELSE received
    /\ SetTask(t, [tasks[t] EXCEPT
           !.attempts = @ + 1,
           !.allTransport = @ /\ o.kind # "response",
           !.resp = IF o.kind = "response" THEN Ptr(o.status) ELSE Nil,
           !.reqErr = o.kind # "response",
           !.pc = IF retry THEN "backoff" ELSE "returned"])
    /\ UNCHANGED <<render, environ, route, startupLog, config, chanBuf, chanClosed, produced, streamPc, msg, process>>

\* The client: time.Sleep(backoff) after a failed attempt, then the next
\* iteration, or the end of the loop when the retries are used up.  After a
\* last attempt that failed in transport the client returns the error; after
\* a last response of 500 or more it returns the response, with or without
\* an error (both occur among the client's versions).
Backoff(t, e) ==
    /\ Running
    /\ At(t, "backoff")
    /\ e \in BOOLEAN
    /\ LET more == tasks[t].attempts <= ClientRetryCount
       IN  /\ (more \/ IsNil(tasks[t].resp)) => e = tasks[t].reqErr
           /\ SetTask(t, [tasks[t] EXCEPT
                  !.sleeps = Append(@, ClientBackoff),
                  !.reqErr = e,
                  !.pc = IF more THEN "attempt" ELSE "returned"])
    /\ UNCHANGED <<render, environ, route, startupLog, config, chanBuf, chanClosed, produced, streamPc, msg, received, process>>

\* The mutant of StatusFailed that reports server errors only.
StatusFailedServerOnly(status) == status >= StatusInternalServerError

\* if req.StatusCode != http.StatusOK
StatusFailed(status) == status # StatusOK

\* The mutant of HandleResponse in which sendLog returns on a failed read
\* of the body, before the close of the body is deferred.
HandleResponseLeaksOnReadError(t, readErr) ==
    /\ Running
    /\ At(t, "returned")
    /\ readErr \in BOOLEAN
    /\ IF tasks[t].reqErr
       THEN /\ ~readErr
            /\ SetTask(t, [tasks[t] EXCEPT
                   !.log = Append(@, LogEntry("Failed to send log to Sumologic", <<<<"error">>>>)),
                   !.pc = "done"])
            /\ UNCHANGED process
       ELSE IF IsNil(tasks[t].resp)
            THEN /\ ~readErr
                 /\ SetTask(t, [tasks[t] EXCEPT !.pc = "panicked"])
                 /\ process' = "crashed"
            ELSE /\ SetTask(t, [tasks[t] EXCEPT
                        !.bodyReads = @ + 1,
                        !.bodyCloses = IF readErr THEN @ ELSE @ + 1,
                        !.log = Concat(<<@,
                            IF readErr THEN <<LogEntry("Unable to read response body.", <<<<"error">>>>)>> ELSE <<>>,
                            IF StatusFailed(Deref(tasks[t].resp)) /\ ~readErr
                            THEN <<LogEntry("Failed to send log to Sumologic",
                                            <<<<"StatusCode", Deref(tasks[t].resp)>>>>)>>
                            ELSE <<>>>>),
                        !.pc = "done"])
                 /\ UNCHANGED process
    /\ UNCHANGED <<render, environ, route, startupLog, config, chanBuf, chanClosed, produced, streamPc, msg, received>>

\* sendLog after Post has returned: the error is logged and sendLog returns;
\* otherwise the body is read (readErr: ReadAll fails), the status is checked
\* against 200 and the deferred closeBody closes the body, which has been
\* read to its end or to its failure and closes without error.  A nil
\* response without an error is a nil dereference.
HandleResponse(t, readErr) ==
    /\ Running
    /\ At(t, "returned")
    /\ readErr \in BOOLEAN
    /\ IF tasks[t].reqErr
       THEN /\ ~readErr
            /\ SetTask(t, [tasks[t] EXCEPT
                   !.log = Append(@, LogEntry("Failed to send log to Sumologic", <<<<"error">>>>)),
                   !.pc = "done"])
            /\ UNCHANGED process
       ELSE IF IsNil(tasks[t].resp)
            THEN /\ ~readErr
                 /\ SetTask(t, [tasks[t] EXCEPT !.pc = "panicked"])
                 /\ process' = "crashed"
            ELSE /\ SetTask(t, [tasks[t] EXCEPT
                        !.bodyReads = @ + 1,
                        !.bodyCloses = @ + 1,
                        !.log = Concat(<<@,
                            IF readErr THEN <<LogEntry("Unable to read response body.", <<<<"error">>>>)>> ELSE <<>>,
                            IF StatusFailed(Deref(tasks[t].resp))
                            THEN <<LogEntry("Failed to send log to Sumologic",
                                            <<<<"StatusCode", Deref(tasks[t].resp)>>>>)>>
                            ELSE <<>>>>),
                        !.pc = "done"])
                 /\ UNCHANGED process
    /\ UNCHANGED <<render, environ, route, startupLog, config, chanBuf, chanClosed, produced, streamPc, msg, received>>

Next ==
    \/ \E m \in Messages : Send(m)
    \/ Close
    \/ Receive
    \/ Spawn
    \/ StreamReturn
    \/ \E t \in TaskIds : BuildHeaders(t)
    \/ \E t \in TaskIds : BuildData(t)
    \/ \E t \in TaskIds : Marshal(t, FALSE)
    \/ \E t \in TaskIds : Post(t)
    \/ \E t \in TaskIds, o \in Outcomes, r \in BOOLEAN : Attempt(t, o, r)
    \/ \E t \in TaskIds, e \in BOOLEAN : Backoff(t, e)
    \/ \E t \in TaskIds, r \in BOOLEAN : HandleResponse(t, r)

Spec == Init /\ [][Next]_vars

(***************************************************************************)
(* The pipeline under the scheduling the Go runtime gives: a goroutine     *)
(* that can take a step is eventually run, and a call of the client ends   *)
(* (every attempt is bounded by the client's timeout), so each task that   *)
(* can move eventually does; so does Stream's loop.                        *)
(***************************************************************************)
TaskStep(t) ==
    \/ BuildHeaders(t)
    \/ BuildData(t)
    \/ Marshal(t, FALSE)
    \/ Post(t)
    \/ \E o \in Outcomes, r \in BOOLEAN : Attempt(t, o, r)
    \/ \E e \in BOOLEAN : Backoff(t, e)
    \/ \E r \in BOOLEAN : HandleResponse(t, r)

StreamStep == Receive \/ Spawn \/ StreamReturn

\* Task t can take a step: it has been started, it has neither ended nor
\* panicked, and the process is running.  This is ENABLED <<TaskStep(t)>>_vars.
TaskCanStep(t) == Running /\ t \in TaskIds /\ tasks[t].pc \notin {"done", "panicked"}

\* Weak fairness of the steps of Stream and of each task; for the tasks,
\* WF_vars(TaskStep(t)) is written out with TaskCanStep(t) for its ENABLED.
SpecFair ==
    /\ Init
    /\ [][Next]_vars
    /\ WF_vars(StreamStep)
    /\ \A t \in 1..MaxRecords : ([]<>(~TaskCanStep(t)) \/ []<><<TaskStep(t)>>_vars)

(***************************************************************************)
(* A single call of sendLog, as the tests make it: the adapter is built    *)
(* from a wider range of templates and the message is any of the model's.  *)
(* Here json.Marshal may return an error, so that the branch of sendLog     *)
(* that handles it is exercised.                                           *)
(***************************************************************************)
AllMessages == Messages \cup {MsgAmp, MsgZeroTime}
TplMissing == <<"{{", ".Container", ".Missing", "}}">>
NameTemplates == {EmptyStr, TplName, TplUnclosed, TplLiteral, TplPrefixed, TplMissing}
HostTemplates == {EmptyStr, TplHostname, TplUnclosed}
CategoryTemplates == {EmptyStr, TplLiteral, TplName, TplUnclosed}

SendLogEnvs ==
    {SetEnv(SetEnv(SetEnv(SetEnv(NoEnv, "SUMOLOGIC_RETRIES", FormatInt(r)),
                          "SUMOLOGIC_SOURCE_NAME", n),
                   "SUMOLOGIC_SOURCE_HOST", h),
            "SUMOLOGIC_SOURCE_CATEGORY", c) :
        r \in {0}, n \in NameTemplates, h \in HostTemplates, c \in CategoryTemplates}

InitSendLog ==
    /\ \E e \in SendLogEnvs :
           /\ environ = e
           /\ route = StrURL
           /\ config = NewAdapter(e, StrURL)
           /\ startupLog = buildConfigLog(e)
    /\ chanBuf = <<>>
    /\ chanClosed = FALSE
    /\ produced = <<>>
    /\ streamPc = "idle"
    /\ msg = Nil
    /\ \E m \in AllMessages : tasks = <<NewTask(m)>>
    /\ received = <<>>
    /\ process = "running"
    /\ render = NoRender

NextSendLog ==
    \/ BuildHeaders(1)
    \/ BuildData(1)
    \/ \E f \in BOOLEAN : Marshal(1, f)
    \/ Post(1)
    \/ \E o \in Outcomes, r \in BOOLEAN : Attempt(1, o, r)
    \/ \E e \in BOOLEAN : Backoff(1, e)
    \/ \E r \in BOOLEAN : HandleResponse(1, r)

SpecSendLog == InitSendLog /\ [][NextSendLog]_vars

(***************************************************************************)
(* The return of Post with a response, and what sendLog does with it: the  *)
(* client hands back, without error, the response to the first attempt,    *)
(* whatever its status below 500.                                          *)
(***************************************************************************)
\* The status codes of the responses: 2xx ones, a redirect, a client error.
ResponseStatuses == {200, 201, 202, 204, 299, 301, 404}

\* sendLog of message m as Post returns the response with this status to
\* its first attempt.
TaskAfterPost(m, status) ==
    [NewTask(m) EXCEPT !.pc = "returned",
                       !.headers = buildHeaders(m, config),
                       !.data = Ptr(buildData(m)),
                       !.strData = Ptr(MarshalJSON(buildData(m)).json),
                       !.posts = 1,
                       !.attempts = 1,
                       !.allTransport = FALSE,
                       !.resp = Ptr(status)]

InitResponse ==
    /\ \E s \in PipelineSetups :
           /\ s[2] # EmptyStr
           /\ environ = s[1]
           /\ route = s[2]
           /\ config = NewAdapter(s[1], s[2])
           /\ startupLog = buildConfigLog(s[1])
    /\ chanBuf = <<>>
    /\ chanClosed = FALSE
    /\ produced = <<>>
    /\ streamPc = "idle"
    /\ msg = Nil
    /\ \E m \in AllMessages, status \in ResponseStatuses :
           /\ ~buildDataPanics(m)
           /\ tasks = <<TaskAfterPost(m, status)>>
           /\ received = <<[task |-> 1, headers |-> buildHeaders(m, config),
                            body |-> MarshalJSON(buildData(m)).json]>>
    /\ process = "running"
    /\ render = NoRender

NextResponse == \E r \in BOOLEAN : HandleResponse(1, r)

SpecResponse == InitResponse /\ [][NextResponse]_vars

(***************************************************************************)
(* The construction of the adapter: NewAdapter builds the configuration    *)
(* from the environment of the process and the route.                      *)
(***************************************************************************)
\* The Config before buildConfig has filled it in.
ZeroConfig ==
    [endPoint |-> EmptyStr, sourceName |-> EmptyStr, sourceCategory |-> EmptyStr,
     sourceHost |-> EmptyStr, retries |-> 0, backoff |-> 0, timeout |-> 0]

StrCollector == <<"h", "t", "t", "p", ":", "/", "/", "c">>

\* The values a variable is set to.  Nil is the variable that is not set.
EndpointOverrides == {Nil, Ptr(EmptyStr), Ptr(StrCollector)}
TemplateOverrides == {Nil, Ptr(EmptyStr), Ptr(TplLiteral)}
IntOverrides ==
    {Nil, Ptr(EmptyStr), Ptr(<<"0">>), Ptr(<<"7">>), Ptr(<<"-", "1">>), Ptr(<<"+", "3">>),
     Ptr(<<"s", "e", "v", "e", "n">>), Ptr(<<"1", "x">>)}

\* os.Setenv(name, value) for a variable that is set.
SetOpt(env, name, p) == IF IsNil(p) THEN env ELSE SetEnv(env, name, Deref(p))

ConfigEnvs ==
    {SetOpt(SetOpt(SetOpt(SetOpt(SetOpt(SetOpt(SetOpt(NoEnv,
         "SUMOLOGIC_ENDPOINT", e), "SUMOLOGIC_SOURCE_NAME", n), "SUMOLOGIC_SOURCE_CATEGORY", c),
         "SUMOLOGIC_SOURCE_HOST", h), "SUMOLOGIC_RETRIES", r), "SUMOLOGIC_BACKOFF", b),
         "SUMOLOGIC_TIMEOUT_MS", t) :
        e \in EndpointOverrides, n \in TemplateOverrides, c \in TemplateOverrides,
        h \in TemplateOverrides, r \in IntOverrides, b \in IntOverrides, t \in IntOverrides}

\* The addresses of the route.
RouteAddresses == {EmptyStr, StrURL}

InitConfig ==
    /\ environ \in ConfigEnvs
    /\ route \in RouteAddresses
    /\ startupLog = <<>>
    /\ config = ZeroConfig
    /\ chanBuf = <<>>
    /\ chanClosed = FALSE
    /\ produced = <<>>
    /\ streamPc = "new"
    /\ msg = Nil
    /\ tasks = <<>>
    /\ received = <<>>
    /\ process = "running"
    /\ render = NoRender

\* NewAdapter: config := buildConfig(route), with what getintopt logs.
BuildConfig ==
    /\ Running
    /\ streamPc = "new"
    /\ config' = NewAdapter(environ, route)
    /\ startupLog' = startupLog \o buildConfigLog(environ)
    /\ streamPc' = "idle"
    /\ UNCHANGED <<render, environ, route, chanBuf, chanClosed, produced, msg, tasks, received, process>>

NextConfig == BuildConfig

SpecConfig == InitConfig /\ [][NextConfig]_vars

(***************************************************************************)
(* The pipeline of one adapter while the environment of the process        *)
(* changes under it: after NewAdapter has returned, os.Setenv gives the     *)
(* variables the adapter was configured from other values.                 *)
(***************************************************************************)
ConstructionEnv == SetEnv(NoEnv, "SUMOLOGIC_RETRIES", FormatInt(0))

\* The variables that are set after construction, and the values given.
LaterSettings ==
    {<<"SUMOLOGIC_RETRIES", FormatInt(MaxRetries)>>,
     <<"SUMOLOGIC_ENDPOINT", StrCollector>>,
     <<"SUMOLOGIC_SOURCE_NAME", TplLiteral>>}

InitSetenv ==
    /\ environ = ConstructionEnv
    /\ route = StrURL
    /\ config = NewAdapter(ConstructionEnv, StrURL)
    /\ startupLog = buildConfigLog(ConstructionEnv)
    /\ chanBuf = <<>>
    /\ chanClosed = FALSE
    /\ produced = <<>>
    /\ streamPc = "range"
    /\ msg = Nil
    /\ tasks = <<>>
    /\ received = <<>>
    /\ process = "running"
    /\ render = NoRender

\* os.Setenv(name, value)
Setenv(name, value) ==
    /\ Running
    /\ Getenv(environ, name) # value
    /\ environ' = SetEnv(environ, name, value)
    /\ UNCHANGED <<render, route, startupLog, config, chanBuf, chanClosed, produced, streamPc,
                   msg, tasks, received, process>>

NextSetenv ==
    \/ \E s \in LaterSettings : Setenv(s[1], s[2])
    \/ \E m \in {MsgBox, MsgEmpty} : Send(m)
    \/ Close
    \/ Receive
    \/ Spawn
    \/ StreamReturn
    \/ \E t \in TaskIds : BuildHeaders(t)
    \/ \E t \in TaskIds : BuildData(t)
    \/ \E t \in TaskIds : Marshal(t, FALSE)
    \/ \E t \in TaskIds : Post(t)
    \/ \E t \in TaskIds, o \in Outcomes, r \in BOOLEAN : Attempt(t, o, r)
    \/ \E t \in TaskIds, e \in BOOLEAN : Backoff(t, e)
    \/ \E t \in TaskIds, r \in BOOLEAN : HandleResponse(t, r)

SpecSetenv == InitSetenv /\ [][NextSetenv]_vars

(***************************************************************************)
(* A call of renderTemplate on its own, on any message and template text   *)
(* of the model.                                                           *)
(***************************************************************************)
TplImage == <<"{{", ".Container", ".Config", ".Image", "}}">>
TplNameAtHost ==
    <<"{{", ".Container", ".Name", "}}", "@", "{{", ".Container", ".Config", ".Hostname", "}}">>
TplEmptyAction == <<"{{", "}}">>
TplStrayClose == <<"a", "}}">>
TplSource == <<"{{", ".Source", "}}">>

RenderTexts ==
    NameTemplates \cup HostTemplates \cup CategoryTemplates
        \cup {TplImage, TplNameAtHost, TplEmptyAction, TplStrayClose, TplSource}

InitRender ==
    /\ environ = NoEnv
    /\ route = StrURL
    /\ config = NewAdapter(NoEnv, StrURL)
    /\ startupLog = <<>>
    /\ chanBuf = <<>>
    /\ chanClosed = FALSE
    /\ produced = <<>>
    /\ streamPc = "idle"
    /\ msg = Nil
    /\ tasks = <<>>
    /\ received = <<>>
    /\ process = "running"
    /\ \E m \in AllMessages, text \in RenderTexts : render = RenderCall(m, text)

\* renderTemplate(msg, text) runs and returns.
RenderTemplate ==
    /\ Running
    /\ render.pc = "call"
    /\ render' = RenderReturn(render, renderTemplate(render.msg, render.text))
    /\ UNCHANGED <<environ, route, startupLog, config, chanBuf, chanClosed, produced, streamPc,
                   msg, tasks, received, process>>

NextRender == RenderTemplate

SpecRender == InitRender /\ [][NextRender]_vars

(***************************************************************************)
(* The properties.                                                         *)
(***************************************************************************)
\* The number of requests of task t the destination has received.
Count(t) == Cardinality({i \in 1..Len(received) : received[i].task = t})

\* Task t is blocked in the client: on the network call or on a backoff wait.
InFlight(t) == tasks[t].pc \in {"attempt", "backoff"}

\* C1: Stream takes the records in the order produced and starts exactly one
\* sendLog task for each record it has read, in the order read: the tasks
\* started are the records read so far (all but the one just received and not
\* yet dispatched), none skipped and none twice.
C1_OneTaskPerRecordInOrder ==
    LET nRead == Len(produced) - Len(chanBuf)
    IN  /\ Len(tasks) = nRead - (IF streamPc = "go" THEN 1 ELSE 0)
        /\ \A i \in 1..Len(tasks) : tasks[i].msg = produced[i]
        /\ streamPc = "go" => msg = Ptr(produced[nRead])

\* Two different records have been read and dispatched, in order.
C1_Witness ==
    /\ streamPc = "range"
    /\ Len(tasks) = 2
    /\ tasks[1].msg = MsgBox /\ tasks[2].msg = MsgEmpty

\* C2: a delivery whose attempts all fail in transport makes exactly
\* 1 + retryCount attempts, sleeps the configured backoff after each failed
\* attempt and so between consecutive attempts, and then ends with the error
\* "Failed to send log to Sumologic" logged and no response.
C2_TransportFailureRetries ==
    \A t \in TaskIds :
        LET k == tasks[t]
        IN  (k.posts = 1 /\ k.allTransport) =>
                /\ k.attempts <= 1 + config.retries
                /\ Len(k.sleeps) = (IF k.pc = "backoff" THEN k.attempts - 1 ELSE k.attempts)
                /\ \A i \in 1..Len(k.sleeps) : k.sleeps[i] = config.backoff
                /\ k.pc \in {"returned", "done"} =>
                       (k.attempts = 1 + config.retries /\ k.reqErr /\ IsNil(k.resp))
                /\ k.pc = "done" =>
                       k.log = <<LogEntry("Failed to send log to Sumologic", <<<<"error">>>>)>>

\* A delivery to a reachable endpoint has failed in transport twice, with one
\* retry configured, and has ended.
C2_Witness ==
    \E t \in TaskIds :
        /\ tasks[t].pc = "done" /\ tasks[t].allTransport
        /\ tasks[t].attempts = 2 /\ config.retries = 1
        /\ config.endPoint # EmptyStr

\* C3: no failure of one delivery is fatal or affects another: every delivery
\* that has not ended belongs to a running process, in which it takes its
\* next step, and Stream can still receive a record that is waiting and
\* dispatch the one it has received.
C3_FailureIsolated ==
    /\ \A t \in TaskIds : tasks[t].pc \notin {"done", "panicked"} => Running
    /\ (streamPc = "range" /\ chanBuf # <<>>) => ENABLED Receive
    /\ streamPc = "go" => ENABLED Spawn

\* C4: every request the destination receives carries the headers and the
\* body built from one and the same record, the record its task was started
\* for; and a delivery whose only attempt was answered 200 has reached the
\* destination exactly once, by one call of Post.
C4_RequestMatchesItsRecord ==
    /\ \A i \in 1..Len(received) :
           LET r == received[i]
           IN  /\ r.task \in 1..Len(produced)
               /\ ~buildDataPanics(produced[r.task])
               /\ r.headers = buildHeaders(produced[r.task], config)
               /\ r.body = MarshalJSON(buildData(produced[r.task])).json
    /\ \A t \in TaskIds :
           (/\ tasks[t].pc \in {"returned", "done"}
            /\ tasks[t].attempts = 1
            /\ tasks[t].resp = Ptr(StatusOK)) => (Count(t) = 1 /\ tasks[t].posts = 1)

\* Two different records were delivered with 200, the second one first.
C4_Witness ==
    /\ Len(tasks) = 2 /\ Len(received) = 2
    /\ tasks[1].msg # tasks[2].msg
    /\ received[1].task = 2 /\ received[2].task = 1
    /\ \A t \in TaskIds : tasks[t].pc = "done" /\ tasks[t].attempts = 1 /\ tasks[t].resp = Ptr(StatusOK)

\* C5: Stream has returned only after logstream was closed and every record
\* produced was dispatched, and once logstream is closed and drained Stream
\* can return whatever the deliveries are doing.
C5_ReturnsAfterDispatchingAll ==
    /\ streamPc = "returned" =>
           /\ chanClosed /\ chanBuf = <<>>
           /\ Len(tasks) = Len(produced)
           /\ \A i \in 1..Len(tasks) : tasks[i].msg = produced[i]
    /\ (Running /\ streamPc = "range" /\ chanClosed /\ chanBuf = <<>>) => ENABLED StreamReturn

\* Stream has returned while both deliveries are in flight.
C5_Witness ==
    /\ streamPc = "returned"
    /\ Len(tasks) = 2
    /\ \A t \in TaskIds : InFlight(t)

\* C6: Stream never waits on a delivery: a record waiting on logstream can be
\* received, and a received record can be dispatched, whatever the state of
\* the deliveries started before.
C6_StreamNeverWaitsOnDelivery ==
    /\ (Running /\ streamPc = "range" /\ chanBuf # <<>>) => ENABLED Receive
    /\ (Running /\ streamPc = "go") => ENABLED Spawn

\* A record has been received while every delivery started before it is in
\* flight.
C6_Witness ==
    /\ streamPc = "go"
    /\ Len(tasks) >= 1
    /\ \A t \in TaskIds : InFlight(t)

\* C7 as stated: the destination receives the request of a record at most
\* once.
C7_AtMostOnce == \A t \in TaskIds : Count(t) <= 1

\* C7 as amended: sendLog calls Post at most once for a record, and the
\* destination receives the request of a record at most once per attempt of
\* the client, so at most 1 + retryCount times.
C7_AtMostOncePerAttempt ==
    \A t \in TaskIds :
        /\ tasks[t].posts <= 1
        /\ Count(t) <= tasks[t].attempts
        /\ tasks[t].attempts <= 1 + config.retries

\* The destination has received the request of one record twice.
C7_Witness == \E t \in TaskIds : tasks[t].pc = "done" /\ Count(t) = 2

\* The headers of task t are built.
HeadersBuilt(t) == tasks[t].pc # "buildHeaders"
RenderedName(t) == renderTemplate(tasks[t].msg, config.sourceName)
RenderedHost(t) == renderTemplate(tasks[t].msg, config.sourceHost)

\* C8 as stated: the built headers always contain X-Sumo-Name and
\* X-Sumo-Host, with the empty string as the value when the template failed
\* to render.
C8_NameAndHostAlwaysSet ==
    \A t \in TaskIds : HeadersBuilt(t) =>
        /\ {"X-Sumo-Name", "X-Sumo-Host"} \subseteq DOMAIN tasks[t].headers
        /\ RenderedName(t).err => tasks[t].headers["X-Sumo-Name"] = <<EmptyStr>>
        /\ RenderedHost(t).err => tasks[t].headers["X-Sumo-Host"] = <<EmptyStr>>

\* C8 as amended: X-Sumo-Name, and likewise X-Sumo-Host, is in the built
\* headers exactly when its template rendered without error, with the
\* rendered text as its single value; when rendering fails the header is
\* left out.
C8_NameAndHostSetWhenRendered ==
    \A t \in TaskIds : HeadersBuilt(t) =>
        /\ ("X-Sumo-Name" \in DOMAIN tasks[t].headers) <=> ~RenderedName(t).err
        /\ ("X-Sumo-Host" \in DOMAIN tasks[t].headers) <=> ~RenderedHost(t).err
        /\ ~RenderedName(t).err => tasks[t].headers["X-Sumo-Name"] = <<RenderedName(t).val>>
        /\ ~RenderedHost(t).err => tasks[t].headers["X-Sumo-Host"] = <<RenderedHost(t).val>>

\* The name template failed to render, the host template rendered, and the
\* headers hold X-Sumo-Host alone of the two.
C8_Witness ==
    \E t \in TaskIds :
        /\ HeadersBuilt(t)
        /\ RenderedName(t).err /\ ~RenderedHost(t).err
        /\ "X-Sumo-Name" \notin DOMAIN tasks[t].headers
        /\ "X-Sumo-Host" \in DOMAIN tasks[t].headers

\* C9: for a record without container descriptor, or whose descriptor has no
\* Config, buildData panics: no body is built, Post is not called, no request
\* reaches the destination, and the panic ends the process.
C9_PanicsWithoutContainer ==
    \A t \in TaskIds : buildDataPanics(tasks[t].msg) =>
        /\ tasks[t].pc \in {"buildHeaders", "buildData", "panicked"}
        /\ IsNil(tasks[t].data) /\ IsNil(tasks[t].strData)
        /\ tasks[t].posts = 0 /\ tasks[t].attempts = 0 /\ Count(t) = 0
        /\ tasks[t].pc = "panicked" => process = "crashed"

\* buildData has panicked on a record whose container descriptor has no
\* Config.
C9_Witness ==
    \E t \in TaskIds :
        /\ tasks[t].pc = "panicked"
        /\ ~IsNil(tasks[t].msg.Container)
        /\ IsNil(Deref(tasks[t].msg.Container).Config)

\* A response without error has come back to sendLog of task t.
GotResponse(t) == tasks[t].pc \in {"returned", "done"} /\ ~tasks[t].reqErr /\ ~IsNil(tasks[t].resp)

\* C10: when the client hands sendLog a response whose status is not 2xx,
\* sendLog logs the error "Failed to send log to Sumologic" with that status
\* code and ends; it has called Post exactly once, and from the moment the
\* response is back no further call of Post, attempt or request is made for
\* the record.
C10_NonSuccessStatusIsTerminal ==
    /\ [](\A t \in TaskIds :
            /\ tasks[t].posts <= 1
            /\ GotResponse(t) => tasks[t].posts = 1
            /\ (GotResponse(t) /\ tasks[t].pc = "done" /\ Deref(tasks[t].resp) \notin 200..299) =>
                   \E i \in 1..Len(tasks[t].log) :
                       tasks[t].log[i] = LogEntry("Failed to send log to Sumologic",
                                                  <<<<"StatusCode", Deref(tasks[t].resp)>>>>))
    /\ [][\A t \in TaskIds :
            (GotResponse(t) /\ Deref(tasks[t].resp) \notin 200..299) =>
                /\ tasks'[t].posts = tasks[t].posts
                /\ tasks'[t].attempts = tasks[t].attempts
                /\ tasks'[t].pc \in {tasks[t].pc, "done"}
                /\ Count(t)' = Count(t)]_vars

\* sendLog has ended after a response of 500 that came without error.
C10_Witness ==
    \E t \in TaskIds :
        /\ GotResponse(t) /\ tasks[t].pc = "done"
        /\ tasks[t].resp = Ptr(StatusInternalServerError)
        /\ tasks[t].log = <<LogEntry("Failed to send log to Sumologic",
                                     <<<<"StatusCode", StatusInternalServerError>>>>)>>

\* The entries of task t's log that report a failed delivery.
DeliveryErrors(t) ==
    {i \in 1..Len(tasks[t].log) : tasks[t].log[i].message = "Failed to send log to Sumologic"}

\* C11: every response with a status from 200 to 299 is a success: sendLog
\* ends without logging a delivery error for the record.
C11_Every2xxIsSuccess ==
    \A t \in TaskIds :
        (GotResponse(t) /\ tasks[t].pc = "done" /\ Deref(tasks[t].resp) \in 200..299) =>
            DeliveryErrors(t) = {}

\* C12: the endpoint is empty exactly when SUMOLOGIC_ENDPOINT is unset or
\* empty and the route address is empty, and then the delivery of every
\* well-formed record fails and is reported: no attempt gets a response or
\* reaches a destination, and sendLog ends, after one call of Post, with the
\* error "Failed to send log to Sumologic" logged.
C12_EmptyEndpointIsReported ==
    /\ config.endPoint = EmptyStr <=>
           (Getenv(environ, "SUMOLOGIC_ENDPOINT") = EmptyStr /\ route = EmptyStr)
    /\ \A t \in TaskIds :
           (config.endPoint = EmptyStr /\ ~buildDataPanics(tasks[t].msg)) =>
               /\ IsNil(tasks[t].resp) /\ Count(t) = 0
               /\ tasks[t].pc = "done" =>
                      /\ tasks[t].posts = 1
                      /\ tasks[t].attempts >= 1
                      /\ tasks[t].log = <<LogEntry("Failed to send log to Sumologic", <<<<"error">>>>)>>

\* With an empty endpoint the delivery of a well-formed record has ended with
\* the delivery error logged.
C12_Witness ==
    \E t \in TaskIds :
        /\ config.endPoint = EmptyStr
        /\ tasks[t].msg = MsgBox
        /\ tasks[t].pc = "done"
        /\ DeliveryErrors(t) # {}

\* The entry sendLog logs when json.Marshal fails.
SerializationError ==
    LogEntry("Unable to build json data, skipping send", <<<<"error">>, <<"message_source">>>>)

\* Serializing the body of task t has failed: the body was built, sendLog is
\* past json.Marshal and there is no serialized body.
SerializationFailed(t) ==
    /\ ~IsNil(tasks[t].data)
    /\ IsNil(tasks[t].strData)
    /\ tasks[t].pc # "marshal"

\* C13: when serializing the body fails, sendLog logs the failure and ends
\* without any network attempt: Post is not called, no attempt is made and
\* nothing reaches the destination; and Post is called only with a
\* serialized body.
C13_SerializationFailureAborts ==
    \A t \in TaskIds :
        /\ SerializationFailed(t) =>
               /\ tasks[t].pc = "done"
               /\ tasks[t].log = <<SerializationError>>
               /\ tasks[t].posts = 0 /\ tasks[t].attempts = 0 /\ Count(t) = 0
        /\ tasks[t].posts > 0 => ~IsNil(tasks[t].strData)
        /\ (\E i \in 1..Len(tasks[t].log) : tasks[t].log[i] = SerializationError) =>
               tasks[t].posts = 0

\* Serializing the body of a well-formed record has failed and sendLog has
\* ended.
C13_Witness ==
    \E t \in TaskIds :
        /\ SerializationFailed(t)
        /\ tasks[t].pc = "done"
        /\ tasks[t].msg = MsgBox

RenderedCategory(t) == renderTemplate(tasks[t].msg, config.sourceCategory)

\* Rendering a header template of task t has failed: the name template, the
\* host template, or a category template that is configured.
TemplateFailed(t) ==
    /\ HeadersBuilt(t)
    /\ \/ RenderedName(t).err
       \/ RenderedHost(t).err
       \/ (config.sourceCategory # EmptyStr /\ RenderedCategory(t).err)

\* The delivery of task t has ended in a failure: the serialization failed,
\* the client returned an error, or the response has a status that is not 2xx.
DeliveryFailed(t) ==
    /\ tasks[t].pc = "done"
    /\ \/ SerializationFailed(t)
       \/ tasks[t].reqErr
       \/ (GotResponse(t) /\ Deref(tasks[t].resp) \notin 200..299)

\* C14: every failure that occurs while a record is processed, a template
\* parse or evaluation error while its headers are built included, is
\* surfaced by at least one entry of the log for that record.
C14_EveryFailureIsLogged ==
    \A t \in TaskIds : (TemplateFailed(t) \/ DeliveryFailed(t)) => tasks[t].log # <<>>

\* C15: X-Sumo-Category is in the built headers exactly when the category
\* template is not empty and renders without error for the record, with the
\* rendered text as its single value; with the default category, which is
\* empty, it is not there.
C15_CategoryIffRendered ==
    \A t \in TaskIds : HeadersBuilt(t) =>
        /\ ("X-Sumo-Category" \in DOMAIN tasks[t].headers) <=>
               (config.sourceCategory # EmptyStr /\ ~RenderedCategory(t).err)
        /\ "X-Sumo-Category" \in DOMAIN tasks[t].headers =>
               tasks[t].headers["X-Sumo-Category"] = <<RenderedCategory(t).val>>
        /\ Getenv(environ, "SUMOLOGIC_SOURCE_CATEGORY") = EmptyStr =>
               "X-Sumo-Category" \notin DOMAIN tasks[t].headers

\* The headers built with the category template "feline" hold that category.
C15_Witness ==
    \E t \in TaskIds :
        /\ HeadersBuilt(t)
        /\ config.sourceCategory = TplLiteral
        /\ "X-Sumo-Category" \in DOMAIN tasks[t].headers
        /\ tasks[t].headers["X-Sumo-Category"] = <<StrFeline>>

\* NewAdapter has built the configuration.
ConfigBuilt == streamPc = "idle"

\* The value of a variable of the environment, "" when it is not set.
Override(name) == IF name \in DOMAIN environ THEN environ[name] ELSE <<>>

\* The environment without the variables that are set to the empty string.
WithoutEmpty(env) == [k \in {n \in DOMAIN env : env[n] # <<>>} |-> env[k]]

\* The environment without the variable name.
Without(env, name) == [k \in DOMAIN env \ {name} |-> env[k]]

\* The integers written by the decimal numerals of the model's environments.
NumeralValue(s) ==
    CASE s = <<"0">> -> 0
      [] s = <<"7">> -> 7
      [] s = <<"-", "1">> -> -1
      [] s = <<"+", "3">> -> 3

DecimalDigits == {"0", "1", "2", "3", "4", "5", "6", "7", "8", "9"}

\* s is a base-10 integer: an optional sign and one digit or more.
IsDecimal(s) ==
    LET d == IF s # <<>> /\ s[1] \in {"+", "-"} THEN SubSeq(s, 2, Len(s)) ELSE s
    IN  d # <<>> /\ \A i \in 1..Len(d) : d[i] \in DecimalDigits

\* The integer settings: the variable, the value in the configuration and
\* the default.
IntSettings ==
    {<<"SUMOLOGIC_RETRIES", config.retries, 2>>,
     <<"SUMOLOGIC_BACKOFF", config.backoff, 10>>,
     <<"SUMOLOGIC_TIMEOUT_MS", config.timeout, 10000>>}

ParseFailure(name) == LogEntry("Failed to parse", <<<<"error">>, <<name, Override(name)>>>>)
ParseFailureLogged(name) == \E i \in 1..Len(startupLog) : startupLog[i] = ParseFailure(name)

\* C17: an integer setting whose variable is set to a non-empty string that
\* is no base-10 integer is resolved as if the variable were not set: it gets
\* its default, the error "Failed to parse" is logged with the variable and
\* its value, and the configuration is built all the same, with every other
\* setting resolved as without it.  A value that parses logs nothing.
C17_UnparsableIntIsAbsent ==
    ConfigBuilt =>
        \A x \in IntSettings :
            /\ (Override(x[1]) # <<>> /\ ~IsDecimal(Override(x[1]))) =>
                   /\ x[2] = x[3]
                   /\ ParseFailureLogged(x[1])
                   /\ config = buildConfig(Without(environ, x[1]), route)
            /\ (Override(x[1]) = <<>> \/ IsDecimal(Override(x[1]))) => ~ParseFailureLogged(x[1])

\* The configuration is built with SUMOLOGIC_BACKOFF set to "seven" and
\* SUMOLOGIC_RETRIES to "7": the backoff is the default and the failure is
\* the one entry of the log.
C17_Witness ==
    /\ ConfigBuilt
    /\ Override("SUMOLOGIC_BACKOFF") = <<"s", "e", "v", "e", "n">>
    /\ Override("SUMOLOGIC_RETRIES") = <<"7">>
    /\ config.backoff = 10
    /\ config.retries = 7
    /\ startupLog = <<ParseFailure("SUMOLOGIC_BACKOFF")>>

C19_ConfigInvariant ==
    ConfigBuilt => (config.retries >= 0 /\ config.backoff >= 0 /\ config.timeout > 0)

\* The milliseconds from 1970-01-01T00:00:00Z to an instant that is not
\* before it, in decimal: the seconds and the three digits of the
\* milliseconds.
EpochMillis(t) ==
    IF UnixSeconds(t) = 0 THEN NatDigits(t.nsec \div 1000000)
    ELSE NatDigits(UnixSeconds(t)) \o Pad(t.nsec \div 1000000, 3)

\* C20: the timestamp of every body built is a string of decimal digits,
\* and they write the milliseconds from the Unix epoch to the time of the
\* record.
C20_TimestampIsEpochMillis ==
    \A t \in TaskIds : ~IsNil(tasks[t].data) =>
        LET ts == Deref(tasks[t].data).Timestamp
            tm == tasks[t].msg.Time
        IN  /\ ts # <<>>
            /\ \A i \in 1..Len(ts) : ts[i] \in DecimalDigits
            /\ tm.days >= UnixEpochDays => ts = EpochMillis(tm)

\* The call of renderTemplate has returned.
Rendered == render.pc = "returned"

\* The message of the call has a container descriptor, and one with a Config.
HasContainer(m) == ~IsNil(m.Container)
HasConfig(m) == HasContainer(m) /\ ~IsNil(Deref(m.Container).Config)

\* C21: renderTemplate returns an error with the empty string in both
\* failure cases, a text that does not parse (an unclosed "{{") and a
\* well-formed template that reads a field of a nil nested object; it returns
\* (it does not panic), and whenever it returns an error the string is
\* empty, never the text rendered up to the failure.
C21_ErrorComesWithEmptyString ==
    /\ Running
    /\ Rendered =>
           /\ render.err => render.val = <<>>
           /\ render.text = <<"{{">> => render.err
           /\ (render.text = <<"{{", ".Container", ".Name", "}}">> /\ ~HasContainer(render.msg)) =>
                  render.err
           /\ (render.text = <<"{{", ".Container", ".Config", ".Hostname", "}}">>
                   /\ ~HasConfig(render.msg)) => render.err
           /\ (render.text = <<"n", "=", "{{", ".Container", ".Name", "}}">>
                   /\ ~HasContainer(render.msg)) => render.err

\* A template with literal text before an action that cannot be evaluated has
\* returned an error, with the empty string.
C21_Witness ==
    /\ Rendered
    /\ render.text = TplPrefixed
    /\ render.msg = MsgNoContainer
    /\ render.err
    /\ render.val = <<>>

\* C22: for a record with a container descriptor, rendering
\* {{.Container.Name}} returns the name of the container, unaltered, and no
\* error.
C22_NameRendersUnaltered ==
    (Rendered /\ render.text = <<"{{", ".Container", ".Name", "}}">> /\ HasContainer(render.msg)) =>
        (~render.err /\ render.val = Deref(render.msg.Container).Name)

\* The container descriptor of the message has none of its fields set: no
\* name, no id and no Config, or a Config with none of its fields set.
NoFieldsSet(m) ==
    /\ HasContainer(m)
    /\ Deref(m.Container).Name = <<>>
    /\ Deref(m.Container).ID = <<>>
    /\ HasConfig(m) => Deref(Deref(m.Container).Config) = [Image |-> <<>>, Hostname |-> <<>>]

\* buildData has been called for task t.
DataCalled(t) == tasks[t].pc \notin {"buildHeaders", "buildData"}

\* C23: for a record without data and source whose container descriptor has
\* none of its fields set, buildData returns the default skeleton body: the
\* message, container.source, docker_name, docker_id, docker_image and
\* docker_hostname are all the empty string.
C23_EmptyContainerGivesSkeleton ==
    \A t \in TaskIds :
        (DataCalled(t) /\ NoFieldsSet(tasks[t].msg)
             /\ tasks[t].msg.Data = <<>> /\ tasks[t].msg.Source = <<>>) =>
            /\ tasks[t].pc # "panicked"
            /\ ~IsNil(tasks[t].data)
            /\ Deref(tasks[t].data).Message = <<>>
            /\ Deref(tasks[t].data).Container.Source = <<>>
            /\ Deref(tasks[t].data).Container.Name = <<>>
            /\ Deref(tasks[t].data).Container.ID = <<>>
            /\ Deref(tasks[t].data).Container.Image = <<>>
            /\ Deref(tasks[t].data).Container.Hostname = <<>>

\* The configuration holds the default header templates.
DefaultTemplates ==
    /\ config.sourceName = <<"{{", ".Container", ".Name", "}}">>
    /\ config.sourceHost = <<"{{", ".Container", ".Config", ".Hostname", "}}">>
    /\ config.sourceCategory = <<>>

\* Header key of task t is in the built headers exactly when its own
\* template rendered, and then with the rendered text as its only value.
OwnTemplateOnly(t, key, rendered) ==
    /\ key \in DOMAIN tasks[t].headers <=> ~rendered.err
    /\ key \in DOMAIN tasks[t].headers => tasks[t].headers[key] = <<rendered.val>>

\* C24: a header whose template fails to render is left out of the headers
\* and the other headers are what they are without the failure: with the
\* default configuration the headers of a record without a container
\* descriptor are empty, and the headers of a record whose container has no
\* Config are X-Sumo-Name alone, with the name of the container (empty when it
\* has no name).
C24_FailedHeaderLeftOutAlone ==
    \A t \in TaskIds : HeadersBuilt(t) =>
        /\ OwnTemplateOnly(t, "X-Sumo-Name", RenderedName(t))
        /\ OwnTemplateOnly(t, "X-Sumo-Host", RenderedHost(t))
        /\ (DefaultTemplates /\ ~HasContainer(tasks[t].msg)) => DOMAIN tasks[t].headers = {}
        /\ (DefaultTemplates /\ HasContainer(tasks[t].msg) /\ ~HasConfig(tasks[t].msg)) =>
               /\ DOMAIN tasks[t].headers = {"X-Sumo-Name"}
               /\ Deref(tasks[t].msg.Container).Name = <<>> =>
                      tasks[t].headers["X-Sumo-Name"] = <<EmptyStr>>

\* With the default configuration the headers of the record whose container
\* has no Config have been built: X-Sumo-Name with the empty name, and no
\* X-Sumo-Host.
C24_Witness ==
    \E t \in TaskIds :
        /\ HeadersBuilt(t)
        /\ DefaultTemplates
        /\ tasks[t].msg = MsgNoConfig
        /\ DOMAIN tasks[t].headers = {"X-Sumo-Name"}
        /\ tasks[t].headers["X-Sumo-Name"] = <<EmptyStr>>

\* Task t has been started.
Started(t) == t \in TaskIds

\* The terminal outcomes of a delivery.
Succeeded(t) == GotResponse(t) /\ ~StatusFailed(Deref(tasks[t].resp))
StatusRejected(t) == GotResponse(t) /\ StatusFailed(Deref(tasks[t].resp))
NetworkFailed(t) == tasks[t].reqErr
OutcomesOf(t) ==
    {o \in {"success", "serialization", "network", "status"} :
        \/ o = "success" /\ Succeeded(t)
        \/ o = "serialization" /\ SerializationFailed(t)
        \/ o = "network" /\ NetworkFailed(t)
        \/ o = "status" /\ StatusRejected(t)}

\* Task t has terminated, in exactly one of the terminal outcomes.
Terminated(t) == Started(t) /\ tasks[t].pc = "done" /\ Cardinality(OutcomesOf(t)) = 1

\* C25: every delivery task that has been started eventually terminates, in
\* exactly one terminal outcome (success, serialization error, network error
\* or non-success status) and after at most 1 + retryCount attempts, whether
\* or not the stream has been closed or Stream has returned meanwhile.
C25_EveryDeliveryTerminates ==
    /\ [](\A t \in TaskIds : tasks[t].attempts <= 1 + ClientRetryCount)
    /\ [](\A t \in TaskIds : tasks[t].pc = "done" => Cardinality(OutcomesOf(t)) = 1)
    /\ \A t \in 1..MaxRecords : Started(t) ~> Terminated(t)

\* The deliveries that do not panic and are not cut short by the panic of
\* another one terminate.
DeliveriesTerminateUnlessCrashed ==
    \A t \in 1..MaxRecords : Started(t) ~> (Terminated(t) \/ process = "crashed")

\* The request of task t reaches the destination next.
Arrive(t) == \E o \in Outcomes, r \in BOOLEAN : Reaches(o) /\ Attempt(t, o, r)

C27_TemplateFailureDoesNotAbort ==
    \A t \in TaskIds : (TemplateFailed(t) /\ HasConfig(tasks[t].msg)) =>
        /\ Running
        /\ tasks[t].pc # "panicked"
        /\ DataCalled(t) => tasks[t].data = Ptr(buildData(tasks[t].msg))
        /\ tasks[t].posts <= 1
        /\ tasks[t].pc \in {"attempt", "backoff", "returned"} => tasks[t].posts = 1
        /\ tasks[t].pc = "done" => (tasks[t].posts = 1 \/ SerializationFailed(t))

\* A delivery has ended whose name template did not parse: the body was posted once and the
\* request, without those headers, was received.
C27_Witness ==
    \E t \in TaskIds :
        /\ tasks[t].pc = "done"
        /\ HasConfig(tasks[t].msg)
        /\ config.sourceName = TplUnclosed
        /\ RenderedName(t).err
        /\ tasks[t].posts = 1
        /\ Count(t) = 1
        /\ "X-Sumo-Name" \notin DOMAIN received[1].headers
        /\ received[1].body = MarshalJSON(buildData(tasks[t].msg)).json

\* The environment no longer holds what the adapter was configured from:
\* built now, the configuration would differ in the endpoint, in the name
\* template and in the retry count.
EnvironmentChanged ==
    /\ getopt(environ, "SUMOLOGIC_ENDPOINT", route) # config.endPoint
    /\ getopt(environ, "SUMOLOGIC_SOURCE_NAME", TplName) # config.sourceName
    /\ getintopt(environ, "SUMOLOGIC_RETRIES", DefaultRetries).val # config.retries

\* C28: the configuration of the adapter is fixed when NewAdapter returns:
\* no step of Stream or of a delivery changes a field of the Config, nor does
\* a later change of the environment; the Config stays what buildConfig made
\* of the environment at construction, and the deliveries use it: the
\* headers are rendered from its templates and the attempts are bounded by
\* its retry count.
C28_ConfigFixedAtConstruction ==
    /\ [][config' = config]_vars
    /\ [](config = buildConfig(ConstructionEnv, route))
    /\ [](\A t \in TaskIds :
             /\ tasks[t].attempts <= 1 + config.retries
             /\ HeadersBuilt(t) => tasks[t].headers = buildHeaders(tasks[t].msg, config))

\* After every variable the adapter was configured from has been given
\* another value, a delivery has ended that failed in transport: it made the
\* one attempt of the Config of the construction, with the name header that
\* Config's template renders.
C28_Witness ==
    /\ EnvironmentChanged
    /\ \E t \in TaskIds :
           /\ tasks[t].pc = "done"
           /\ tasks[t].attempts = 1 + config.retries
           /\ tasks[t].reqErr
           /\ tasks[t].headers["X-Sumo-Name"] = <<StrBox>>

\* The log of task t has the entry of a failed read of the response body.
ReadFailed(t) ==
    \E i \in 1..Len(tasks[t].log) : tasks[t].log[i].message = "Unable to read response body."

\* C29: when the client has returned a response to sendLog (and no error),
\* then whatever the status of the response and whether or not reading its
\* body failed, sendLog has read the body once and closed it once when it
\* ends, and it does neither before the client returns nor more than once;
\* when the client has returned an error, sendLog ends without reading or
\* closing anything.
C29_BodyReadAndClosedOnce ==
    \A t \in TaskIds :
        /\ tasks[t].bodyReads <= 1 /\ tasks[t].bodyCloses <= 1
        /\ tasks[t].pc # "done" => (tasks[t].bodyReads = 0 /\ tasks[t].bodyCloses = 0)
        /\ (tasks[t].pc = "done" /\ GotResponse(t)) =>
               (tasks[t].bodyReads = 1 /\ tasks[t].bodyCloses = 1)
        /\ tasks[t].reqErr => (tasks[t].bodyReads = 0 /\ tasks[t].bodyCloses = 0)

\* sendLog has ended on a response with status 404 whose body could not be
\* read: the body was read once and closed once.
C29_Witness ==
    \E t \in TaskIds :
        /\ tasks[t].pc = "done"
        /\ tasks[t].resp = Ptr(404)
        /\ ~tasks[t].reqErr
        /\ ReadFailed(t)
        /\ tasks[t].bodyReads = 1
        /\ tasks[t].bodyCloses = 1

\* C30: the timestamp of the body is the nanoseconds from the Unix epoch to
\* the time of the record as int64 holds them, divided by 1000000 with
\* truncation toward zero, in decimal: for a record without a Time (the zero
\* time) the count wraps and the body has the timestamp "-6795364578871" and
\* the container time "0001-01-01T00:00:00Z"; for the times of the tests,
\* where nothing wraps, it is the milliseconds from the epoch.
C30_TimestampIsWrappedNanosByMillion ==
    \A t \in TaskIds : ~IsNil(tasks[t].data) =>
        LET body == Deref(tasks[t].data)
            tm == tasks[t].msg.Time
        IN  /\ tm = MkTime(0, 0, 0) =>
                   /\ body.Timestamp =
                       <<"-", "6", "7", "9", "5", "3", "6", "4", "5", "7", "8", "8", "7", "1">>
                   /\ body.Container.Time =
                       <<"0", "0", "0", "1", "-", "0", "1", "-", "0", "1", "T",
                         "0", "0", ":", "0", "0", ":", "0", "0", "Z">>
            /\ tm = BaseTime(0) => body.Timestamp = <<"1", "5", "1", "4", "8", "9", "8", "0", "0", "0", "0", "0", "0">>
            /\ tm = BaseTime(10) => body.Timestamp = <<"1", "5", "1", "4", "8", "9", "8", "0", "1", "0", "0", "0", "0">>

\* The body of the record without a Time has been posted and received with
\* the wrapped timestamp.
C30_Witness ==
    \E t \in TaskIds :
        /\ tasks[t].msg = MsgZeroTime
        /\ ~IsNil(tasks[t].data)
        /\ Deref(tasks[t].data).Timestamp =
                       <<"-", "6", "7", "9", "5", "3", "6", "4", "5", "7", "8", "8", "7", "1">>
        /\ Count(t) = 1
        /\ received[1].body = MarshalJSON(Deref(tasks[t].data)).json

=============================================================================
